---------------------------- MODULE Spec2Model ----------------------------
(***************************************************************************)
(* dirwalk: a recursive, type-filtered directory lister.                   *)
(*                                                                         *)
(* The repository holds five implementations of the same utility.  Each is *)
(* modelled, and a behaviour of the model is one run of one of them on one *)
(* directory tree with one command line:                                   *)
(*   "dw"  src/src/dirwalk.c        nftw(), options struct, filter_active  *)
(*   "mc"  src/main.c               opendir()/readdir() recursion          *)
(*   "p1"  src/unnamed/part_001     nftw(), flag word, start-link rewrite  *)
(*   "p3a" src/unnamed/part_003     (lines 1-417) process_entry() plus     *)
(*                                  walk_directory_contents()              *)
(*   "p3b" src/unnamed/part_003     (lines 419-544) nftw(), flag word      *)
(* src/unnamed/part_002 is src/src/dirwalk.c with other comments.          *)
(***************************************************************************)
EXTENDS Integers, Sequences, FiniteSets, TLC

VARIABLES
    variant,        \* which implementation runs
    kind,           \* the directory tree: node -> kind of the node
    opts,           \* the option letters of the command line
    argv_dir,       \* the directory argument (<<>>: none was given)
    start_dir,      \* the start path main() settles on
    traverse_dir,   \* the path handed to the walk
    pc,             \* control point of main()
    show_links, show_dirs, show_files, sort_output, filter_active,
    stack,          \* one frame per directory being enumerated
    list,           \* the collected paths (paths[0 .. count-1])
    capacity,       \* the capacity field of the list
    slots,          \* the slots of the array the list points to
    idx,            \* loop index of the print loop
    out,            \* the lines written to standard output
    status,         \* exit status of the process
    okWrites,       \* writes that still succeed (-1: stdout never fails)
    okAllocs,       \* allocations that still succeed (-1: never fail)
    recovers,       \* does stdout work again after a write has failed?
    wfails,         \* history: writes to stdout that failed
    afails,         \* history: allocations that failed
    log,            \* history: one record per entry the walker handled
    flushes,        \* history: how often the sort-and-flush step began
    run,            \* number of the run in this behaviour
    prev            \* history: configuration and output of the run before

vars == <<variant, kind, opts, argv_dir, start_dir, traverse_dir, pc,
          show_links, show_dirs, show_files, sort_output, filter_active,
          stack, list, capacity, slots, idx, out, status, okWrites,
          okAllocs, recovers, wfails, afails, log, flushes, run, prev>>

-----------------------------------------------------------------------------
(* Bounds *)

NumNodes == 4        \* nodes of the largest tree (node 1 is the start path)
MaxOkWrites == 2     \* most writes that succeed before one fails
MaxOkAllocs == 5     \* most allocations that succeed before one fails
InitialCapacity == 2 \* slots of the first array of the list (the programs
                     \* start with 64, 100 or 128 and double from there)

Variants == {"dw", "mc", "p1", "p3a", "p3b"}
NftwVariants == {"dw", "p1", "p3b"}

-----------------------------------------------------------------------------
(* The file system *)

Nodes == 1..NumNodes

(* Node n > 1 lives in the directory Parent(n); readdir() yields the       *)
(* children of a directory in the order of their numbers.                  *)
Parent(n) == n \div 2

Names == <<"r", "c", "b", "d", "a", "e", "f", "g">>
Name(n) == Names[n]

(* Kinds, by the node's own (lstat) metadata:                              *)
(*   D   directory            DNR directory that cannot be opened (EACCES) *)
(*   DV  directory that is removed after its metadata was read: opening it *)
(*       fails with ENOENT                                                 *)
(*   F   regular file         O   socket, FIFO or device                   *)
(*   FV  regular file that another process replaces by an empty directory  *)
(*       after its metadata was read for the first time                    *)
(*   L   symbolic link        LD  symbolic link to a directory             *)
(*   NS  entry whose metadata cannot be read   none: no such node          *)
(* A link below the start path points to the start directory (a cycle);    *)
(* a start path of kind L points to a regular file, one of kind LD to the  *)
(* directory TargetDir, whose entries are then the nodes 2, 3.             *)
StartKinds == {"D", "DNR", "F", "O", "L", "LD", "NS"}
ChildKinds == {"D", "DNR", "DV", "F", "O", "L", "NS"}

HoldsEntries(k, n) ==
    IF n = 1 THEN k[n] \in {"D", "DNR", "LD"} ELSE k[n] \in {"D", "DNR"}

Trees ==
    {k \in [Nodes -> StartKinds \cup ChildKinds \cup {"none"}] :
        /\ k[1] \in StartKinds
        /\ \A n \in Nodes \ {1} :
              /\ k[n] \in ChildKinds \cup {"none"}
              /\ k[n] # "none" => HoldsEntries(k, Parent(n))}

(* readdir(): the entries of directory n, "." and ".." left out. *)
RECURSIVE ChildrenFrom(_, _)
ChildrenFrom(n, c) ==
    IF c > NumNodes THEN <<>>
    ELSE (IF Parent(c) = n /\ kind[c] # "none" THEN <<c>> ELSE <<>>)
         \o ChildrenFrom(n, c + 1)

Children(n) == ChildrenFrom(n, 2)

(* stat(): the kind after following a final symbolic link. *)
StatKind(n) ==
    CASE kind[n] = "LD" -> "D"
      [] kind[n] = "L"  -> IF n = 1 THEN "F"
                           ELSE IF kind[1] = "LD" THEN "D" ELSE kind[1]
      [] OTHER          -> kind[n]

(* opendir() follows a final symbolic link and needs a readable directory. *)
CanOpen(n) == StatKind(n) = "D" \/ kind[n] = "FV"

-----------------------------------------------------------------------------
(* Paths are sequences of characters. *)

Slash == <<"/">>
Str(c) == <<c>>

(* readlink() of a start path that is a link to a directory. *)
TargetDir == <<"/", "t">>

CharCode == [c \in {".", "/", "a", "b", "c", "d", "e", "f", "g", "r", "t"} |->
    CASE c = "." -> 46 [] c = "/" -> 47 [] c = "a" -> 97 [] c = "b" -> 98 [] c = "c" -> 99
      [] c = "d" -> 100 [] c = "e" -> 101 [] c = "f" -> 102 [] c = "g" -> 103
      [] c = "r" -> 114 [] c = "t" -> 116]


(* strcoll() in the "C" locale: the sign of the bytewise comparison. *)
RECURSIVE strcoll(_, _)
strcoll(a, b) ==
    IF a = <<>> /\ b = <<>> THEN 0
    ELSE IF a = <<>> THEN -1
    ELSE IF b = <<>> THEN 1
    ELSE IF CharCode[Head(a)] < CharCode[Head(b)] THEN -1
    ELSE IF CharCode[Head(a)] > CharCode[Head(b)] THEN 1
    ELSE strcoll(Tail(a), Tail(b))

compare_paths(a, b) == strcoll(a, b)

(* qsort() with compare_paths: the sorted arrangement of the array. *)
RECURSIVE InsertSorted(_, _)
InsertSorted(p, s) ==
    IF s = <<>> THEN <<p>>
    ELSE IF compare_paths(p, Head(s)) <= 0 THEN <<p>> \o s
    ELSE <<Head(s)>> \o InsertSorted(p, Tail(s))

(* A qsort() call that was left out. *)
qsortOmitted(s) == s

RECURSIVE qsort(_)
qsort(s) ==
    IF s = <<>> THEN <<>> ELSE InsertSorted(Head(s), qsort(Tail(s)))

(* remove_trailing_slash(): drops every trailing separator. *)
RECURSIVE remove_trailing_slash(_)
remove_trailing_slash(path) ==
    IF Len(path) > 0 /\ path[Len(path)] = "/"
    THEN remove_trailing_slash(SubSeq(path, 1, Len(path) - 1))
    ELSE path

(* snprintf(path, "%s/%s", dir_name, d_name) of src/main.c. *)
JoinMc(dir_name, d_name) == dir_name \o Slash \o d_name

(* The join of walk_directory_contents(): a separator unless dir_path      *)
(* already ends in one.                                                    *)
JoinP3a(dir_path, d_name) ==
    LET needs_slash == Len(dir_path) > 0 /\ dir_path[Len(dir_path)] # "/"
    IN  dir_path \o (IF needs_slash THEN Slash ELSE <<>>) \o d_name

(* The start path as nftw() keeps it: trailing separators are dropped, the *)
(* first character stays.                                                  *)
RECURSIVE FtwDirbuf(_)
FtwDirbuf(dir) ==
    IF Len(dir) > 1 /\ dir[Len(dir)] = "/"
    THEN FtwDirbuf(SubSeq(dir, 1, Len(dir) - 1))
    ELSE dir

(* The path nftw() builds for an entry of the directory it is reading: a   *)
(* separator is added unless the directory's path ends in one (the root).  *)
JoinNftw(dirbuf, d_name) ==
    (IF dirbuf[Len(dirbuf)] # "/" THEN dirbuf \o Slash ELSE dirbuf) \o d_name

Join(v, dir, d_name) ==
    CASE v = "mc"  -> JoinMc(dir, d_name)
      [] v = "p3a" -> JoinP3a(dir, d_name)
      [] OTHER     -> JoinNftw(dir, d_name)

IsPrefix(p, q) == Len(p) <= Len(q) /\ SubSeq(q, 1, Len(p)) = p

-----------------------------------------------------------------------------
(* Classification: does an entry match the type filter?  One operator per *)
(* implementation, from the kind k the walker's metadata call returned.    *)

(* The type flag nftw() hands to its callback for an entry of kind k; a    *)
(* socket, FIFO or device is FTW_F like a regular file.                    *)
TypeFlagOf(k) ==
    CASE k = "D"           -> "FTW_D"
      [] k = "DNR"         -> "FTW_DNR"
      [] k \in {"L", "LD"} -> "FTW_SL"
      [] k = "NS"          -> "FTW_NS"
      [] k = "DP"          -> "FTW_DP"
      [] OTHER             -> "FTW_F"

(* process_entry() whose default case leaves out symbolic links. *)
MatchDwNoLinks(k) ==
    LET typeflag == TypeFlagOf(k)
    IN  IF typeflag \in {"FTW_NS", "FTW_DP"} THEN FALSE
        ELSE IF ~filter_active THEN typeflag # "FTW_SL"
        ELSE IF show_links /\ typeflag \in {"FTW_SL", "FTW_SLN"} THEN TRUE
        ELSE IF show_dirs /\ typeflag \in {"FTW_D", "FTW_DNR"} THEN TRUE
        ELSE IF show_files /\ typeflag = "FTW_F" THEN k = "F"
        ELSE FALSE

(* src/src/dirwalk.c process_entry(), lines 261-290 *)
MatchDw(k) ==
    LET typeflag == TypeFlagOf(k)
    IN  IF typeflag \in {"FTW_NS", "FTW_DP"} THEN FALSE
        ELSE IF ~filter_active THEN TRUE
        ELSE IF show_links /\ typeflag \in {"FTW_SL", "FTW_SLN"} THEN TRUE
        ELSE IF show_dirs /\ typeflag \in {"FTW_D", "FTW_DNR"} THEN TRUE
        ELSE IF show_files /\ typeflag = "FTW_F" THEN k = "F"
        ELSE FALSE

(* src/main.c dirwalk(), lines 86-98 *)
MatchMc(k) ==
    LET is_link == k \in {"L", "LD"}
        is_dir  == k \in {"D", "DNR", "DV"}
        is_file == k = "F"
    IN  /\ k # "NS"
        /\ \/ is_link /\ show_links
           \/ is_dir /\ show_dirs
           \/ is_file /\ show_files

(* src/unnamed/part_001 process_entry(), lines 94-108 *)
MatchP1(k) ==
    LET typeflag == TypeFlagOf(k)
    IN  CASE typeflag \in {"FTW_SL", "FTW_SLN"} -> show_links
          [] typeflag = "FTW_D" -> show_dirs
          [] typeflag = "FTW_F" -> show_files
          [] OTHER -> FALSE

(* src/unnamed/part_003 process_entry(), lines 295-317 *)
MatchP3a(k) ==
    IF k = "NS" THEN FALSE
    ELSE IF ~filter_active THEN TRUE
    ELSE IF k \in {"L", "LD"} /\ show_links THEN TRUE
    ELSE IF k \in {"D", "DNR", "DV"} /\ show_dirs THEN TRUE
    ELSE IF k = "F" /\ show_files THEN TRUE
    ELSE FALSE

(* src/unnamed/part_003 process_entry(), lines 495-508 *)
MatchP3b(k) ==
    LET typeflag == TypeFlagOf(k)
    IN  CASE typeflag \in {"FTW_SL", "FTW_SLN"} -> show_links
          [] typeflag = "FTW_D" -> show_dirs
          [] typeflag = "FTW_F" -> show_files
          [] OTHER -> FALSE

Match(v, k) ==
    CASE v = "dw"  -> MatchDw(k)
      [] v = "mc"  -> MatchMc(k)
      [] v = "p1"  -> MatchP1(k)
      [] v = "p3a" -> MatchP3a(k)
      [] v = "p3b" -> MatchP3b(k)

-----------------------------------------------------------------------------
(* The output sinks.  A sink works on the record                           *)
(*   [list, cap, slots, out, okW, okA, wf, af, ok, ub, res, log]           *)
(* of the list, its capacity field and the slots of its array, the output, *)
(* the writes and allocations that still succeed, the writes and           *)
(* allocations that have failed, the history, the success of the last      *)
(* library call, whether the step wrote outside the array, and what the    *)
(* sink tells its caller: "cont" go on, "stop" the callback returns        *)
(* non-zero, "exit" exit(EXIT_FAILURE), "abort" abort().                   *)

(* printf("%s\n") / puts(): one line to standard output, or a failure. *)
DoWrite(s, line) ==
    IF s.okW = 0
    THEN [s EXCEPT !.ok = FALSE, !.wf = @ + 1,
                   !.okW = IF recovers THEN -1 ELSE 0]
    ELSE [s EXCEPT !.out = Append(@, line),
                   !.okW = IF @ > 0 THEN @ - 1 ELSE @,
                   !.ok = TRUE]

(* malloc() / realloc() / strdup(): succeeds or returns NULL. *)
DoAlloc(s) ==
    IF s.okA = 0 THEN [s EXCEPT !.ok = FALSE, !.af = @ + 1]
    ELSE [s EXCEPT !.okA = IF @ > 0 THEN @ - 1 ELSE @, !.ok = TRUE]

(* What a NULL pointer stored in the list stands for. *)
NullStr == <<"0">>

(* Is the output collected in the list instead of written at once? *)
Collecting(v) == v = "mc" \/ sort_output

(* process_entry() that prints the path also when it collects it. *)
SinkDwAlsoPrints(s, fpath) ==
    LET w == DoWrite(s, fpath)
    IN  IF sort_output
        THEN [w EXCEPT !.list = Append(@, fpath), !.res = "cont"]
        ELSE [w EXCEPT !.res = IF w.ok THEN "cont" ELSE "stop"]

(* src/src/dirwalk.c add_path_to_list() and the sink of process_entry() *)
SinkDw(s, fpath) ==
    IF sort_output
    THEN LET new_capacity == IF s.cap = 0 THEN InitialCapacity
                             ELSE s.cap * 2
             r == IF Len(s.list) >= s.cap THEN DoAlloc(s) ELSE s
             g == IF Len(s.list) >= s.cap /\ r.ok
                  THEN [r EXCEPT !.cap = new_capacity, !.slots = new_capacity]
                  ELSE r
             a == DoAlloc(g)
         IN  IF ~g.ok THEN [g EXCEPT !.res = "stop"]
             ELSE IF a.ok
             THEN [a EXCEPT !.list = Append(@, fpath), !.res = "cont"]
             ELSE [a EXCEPT !.res = "stop"]
    ELSE LET w == DoWrite(s, fpath)
         IN  [w EXCEPT !.res = IF w.ok THEN "cont" ELSE "stop"]

(* add_path() that puts the new path in front of the list. *)
SinkMcPrepends(s, path) ==
    LET grow == Len(s.list) = s.cap
        r == IF grow THEN DoAlloc(s) ELSE s
        g == IF grow
             THEN [r EXCEPT !.cap = IF @ = 0 THEN InitialCapacity ELSE @ * 2,
                            !.slots = IF r.ok
                                      THEN (IF s.cap = 0 THEN InitialCapacity
                                            ELSE s.cap * 2)
                                      ELSE 0]
             ELSE r
        a == DoAlloc(g)
    IN  IF ~g.ok THEN [g EXCEPT !.res = "exit"]
        ELSE IF a.ok THEN [a EXCEPT !.list = <<path>> \o @, !.res = "cont"]
        ELSE [a EXCEPT !.res = "exit"]

(* src/main.c add_path() *)
SinkMc(s, path) ==
    LET grow == Len(s.list) = s.cap
        r == IF grow THEN DoAlloc(s) ELSE s
        g == IF grow
             THEN [r EXCEPT !.cap = IF @ = 0 THEN InitialCapacity ELSE @ * 2,
                            !.slots = IF r.ok
                                      THEN (IF s.cap = 0 THEN InitialCapacity
                                            ELSE s.cap * 2)
                                      ELSE 0]
             ELSE r
        a == DoAlloc(g)
    IN  IF ~g.ok THEN [g EXCEPT !.res = "exit"]
        ELSE IF a.ok THEN [a EXCEPT !.list = Append(@, path), !.res = "cont"]
        ELSE [a EXCEPT !.res = "exit"]

(* src/unnamed/part_001 process_entry(), lines 110-133: the reported path  *)
(* is rewritten under the start path the caller spelled.                   *)
AdjustedPath(fpath) ==
    IF traverse_dir # start_dir
    THEN LET len == Len(traverse_dir)
         IN  IF IsPrefix(traverse_dir, fpath)
             THEN IF Len(fpath) = len THEN start_dir
                  ELSE IF fpath[len + 1] = "/"
                       THEN start_dir \o Slash
                                \o SubSeq(fpath, len + 2, Len(fpath))
                       ELSE fpath
             ELSE fpath
    ELSE fpath

(* add_to_list() of part_001:51-63 and part_003:455-467: the capacity is   *)
(* doubled before realloc() is tried, the result of strdup() is stored     *)
(* unchecked, and a store at or beyond the slots of the array is out of    *)
(* bounds.  res = "stop" stands for the return value 1.                    *)
add_to_list(s, fpath) ==
    LET grow == Len(s.list) >= s.cap
        r == IF grow THEN DoAlloc(s) ELSE s
        g == IF grow
             THEN [r EXCEPT !.cap = @ * 2,
                            !.slots = IF r.ok THEN s.cap * 2 ELSE @]
             ELSE r
        d == DoAlloc(g)
    IN  IF ~g.ok THEN [g EXCEPT !.res = "stop"]
        ELSE [d EXCEPT !.list = Append(@, IF d.ok THEN fpath ELSE NullStr),
                       !.ub = Len(g.list) >= g.slots,
                       !.res = "cont"]

(* src/unnamed/part_001 add_to_list() and the sink of process_entry() *)
SinkP1(s, fpath) ==
    LET a == DoAlloc(s)
    IN  IF ~a.ok THEN [a EXCEPT !.res = "stop"]
        ELSE IF sort_output
        THEN add_to_list(a, AdjustedPath(fpath))
        ELSE LET w == DoWrite(a, AdjustedPath(fpath))
             IN  [w EXCEPT !.res = IF w.ok THEN "cont" ELSE "stop"]

(* src/unnamed/part_003 add_result() and the sink of process_entry() *)
SinkP3a(s, path) ==
    IF sort_output
    THEN LET new_capacity == s.cap * 2
             r == IF Len(s.list) >= s.cap THEN DoAlloc(s) ELSE s
             g == IF Len(s.list) >= s.cap /\ r.ok
                  THEN [r EXCEPT !.cap = new_capacity, !.slots = new_capacity]
                  ELSE r
             a == DoAlloc(g)
         IN  IF ~g.ok THEN [g EXCEPT !.res = "abort"]
             ELSE IF a.ok
             THEN [a EXCEPT !.list = Append(@, path), !.res = "cont"]
             ELSE [a EXCEPT !.res = "abort"]
    ELSE LET w == DoWrite(s, path)
         IN  [w EXCEPT !.res = IF w.ok THEN "cont" ELSE "exit"]

(* process_entry() that hands a matching path to its output twice. *)
SinkP3bTwice(s, fpath) ==
    IF sort_output
    THEN [add_to_list(add_to_list(s, fpath), fpath) EXCEPT !.res = "cont"]
    ELSE [DoWrite(DoWrite(s, fpath), fpath) EXCEPT !.res = "cont"]

(* src/unnamed/part_003 add_to_list() and process_entry(), lines 455-518 *)
SinkP3b(s, fpath) ==
    IF sort_output
    THEN [add_to_list(s, fpath) EXCEPT !.res = "cont"]
    ELSE [DoWrite(s, fpath) EXCEPT !.res = "cont"]

Sink(v, s, path) ==
    CASE v = "dw"  -> SinkDw(s, path)
      [] v = "mc"  -> SinkMc(s, path)
      [] v = "p1"  -> SinkP1(s, path)
      [] v = "p3a" -> SinkP3a(s, path)
      [] v = "p3b" -> SinkP3b(s, path)

(* The path an implementation reports for the entry it knows as fpath. *)
Reported(v, fpath) == IF v = "p1" THEN AdjustedPath(fpath) ELSE fpath

(* The metadata call of the walk: lstat(), and nftw() under FTW_PHYS, do   *)
(* not follow a final symbolic link.                                       *)
Lstat(n) == IF kind[n] = "FV" THEN "F" ELSE kind[n]

(* lstat() of the same entry once more, after process_entry() has returned *)
(* (part_003:395 and 145): it sees what another process did meanwhile.     *)
LstatAgain(n) ==
    CASE kind[n] = "FV" -> "D"
      [] kind[n] = "DV" -> "NS"
      [] OTHER          -> kind[n]

(* Is a message written to stderr for an entry whose metadata call gave k? *)
(* src/main.c and process_entry() of part_003:292-298 report a failed      *)
(* lstat(); the nftw() callbacks return on FTW_NS without a message.       *)
Diagnostic(v, k) == k = "NS" /\ v \in {"mc", "p3a"}

(* process_entry(): classify the entry of kind k at fpath and hand it to   *)
(* the sink when it matches.  The history gets one record for the entry:   *)
(* as is the kind it was classified by, dk the kind that decides whether   *)
(* the walk descends into it.                                              *)
Classify(v, s, n, k, fpath, opened) ==
    LET m == Match(v, k)
        t == IF m THEN Sink(v, s, fpath) ELSE [s EXCEPT !.res = "cont"]
        e == [node |-> n, path |-> Reported(v, fpath), as |-> k,
              emitted |-> m /\ (t.list # s.list \/ t.out # s.out),
              opened |-> opened, diag |-> Diagnostic(v, k),
              dk |-> IF v = "p3a" THEN LstatAgain(n) ELSE k]
    IN  [t EXCEPT !.log = Append(@, e)]

-----------------------------------------------------------------------------
(* The walk *)

(* nftw() called with FTW_PHYS | FTW_DEPTH. *)
FtwDepthGiven == TRUE

(* Is FTW_DEPTH among the flags handed to nftw()?  With it, nftw() reports *)
(* a directory after its entries, as FTW_DP.                               *)
FtwDepth == FALSE

(* The entries opendir()/readdir() yield for entry n: those of the         *)
(* directory that n names, through a final symbolic link if n is one.      *)
ListDir(n) == IF n > 1 /\ kind[n] = "L" THEN Children(1) ELSE Children(n)

Frame(path, n) == [path |-> path, node |-> n, rest |-> ListDir(n)]

St == [list |-> list, cap |-> capacity, slots |-> slots, out |-> out,
       okW |-> okWrites, okA |-> okAllocs, wf |-> wfails, af |-> afails,
       ok |-> TRUE, ub |-> FALSE, res |-> "cont", log |-> log]

Unclassified(s, n, path) ==
    [s EXCEPT !.log = Append(@, [node |-> n, path |-> path,
                                 as |-> "unclassified", emitted |-> FALSE,
                                 opened |-> TRUE, diag |-> FALSE,
                                 dk |-> "unclassified"])]

(* One entry handled by nftw(): ftw_startup() for the start path and       *)
(* process_entry()/ftw_dir() of the C library for an entry below it.  The  *)
(* result record also says whether the walk descends (push).  A directory  *)
(* is opened before it is reported: when that fails for another reason     *)
(* than EACCES, nftw() gives up and returns -1.                            *)
NftwEntry(v, s, n, k, fpath) ==
    IF k = "DV" THEN [s EXCEPT !.res = "fail"]
    ELSE IF k = "D"
    THEN IF FtwDepth
         THEN [s EXCEPT !.res = "push"]
         ELSE LET t == Classify(v, s, n, "D", fpath, TRUE)
              IN  [t EXCEPT !.res = IF t.res = "cont" THEN "push" ELSE @]
    ELSE Classify(v, s, n, k, fpath, FALSE)

(* Does the recursive call for an entry of kind k open a directory?  The   *)
(* callers test S_ISDIR(); opendir() then fails on an unreadable one.      *)
Descend(k, n) == k \in {"D", "DNR", "DV"} /\ CanOpen(n)

(* src/main.c dirwalk(), lines 86-103 and 70-73, for one entry of dir *)
McEntry(s, n, path) ==
    LET k == Lstat(n)
        t == Classify("mc", s, n, k, path, Descend(k, n))
    IN  [t EXCEPT !.res = IF t.res = "cont" /\ Descend(k, n)
                          THEN "push" ELSE @]

(* src/unnamed/part_003 lines 390-403 and 355-359: process_entry(), a      *)
(* second lstat(), and the opendir() of the recursive call                 *)
P3aEntry(s, n, full_path) ==
    LET k == Lstat(n)
        entry_stat == LstatAgain(n)
        t == Classify("p3a", s, n, k, full_path, Descend(entry_stat, n))
    IN  [t EXCEPT !.res = IF t.res = "cont" /\ Descend(entry_stat, n)
                          THEN "push" ELSE @]

(* One turn of the readdir() loop; walk_directory_contents() of part_003   *)
(* first allocates the entry's path (lines 372-378).                       *)
Entry(v, s, n, path) ==
    CASE v = "mc"  -> McEntry(s, n, path)
      [] v = "p3a" -> LET a == DoAlloc(s)
                      IN  IF a.ok THEN P3aEntry(a, n, path)
                          ELSE [a EXCEPT !.res = "abort"]
      [] OTHER     -> NftwEntry(v, s, n, Lstat(n), path)

(* Where main() goes on once the walk has ended with result res:           *)
(*   "cont" the walk completed       "stop" a callback returned non-zero   *)
(*   "fail" nftw() returned -1 by itself, or the start path has no         *)
(*          metadata                 "exit", "abort" the process ended     *)
AfterWalk(v, res) ==
    LET flush == [pc |-> "flush", status |-> "running"]
        ok    == [pc |-> "done", status |-> "EXIT_SUCCESS"]
        fail  == [pc |-> "done", status |-> "EXIT_FAILURE"]
        abort == [pc |-> "done", status |-> "SIGABRT"]
        go    == IF Collecting(v) THEN flush ELSE ok
    IN  CASE res = "abort" -> abort
          [] res = "exit" -> fail
          [] res = "fail" -> fail
          [] res = "stop" -> IF v = "dw" THEN fail ELSE go
          [] OTHER -> go

Apply(t) ==
    /\ list' = t.list
    /\ capacity' = t.cap
    /\ slots' = t.slots
    /\ out' = t.out
    /\ okWrites' = t.okW
    /\ okAllocs' = t.okA
    /\ wfails' = t.wf
    /\ afails' = t.af
    /\ log' = t.log

Goto(g) ==
    /\ pc' = g.pc
    /\ status' = g.status

Config == <<variant, kind, opts, argv_dir, recovers, run, prev>>
Flags == <<show_links, show_dirs, show_files, sort_output, filter_active>>

-----------------------------------------------------------------------------
(* The command lines *)

TypeFilters == {{}, {"l"}, {"d"}, {"f"}, {"l", "d", "f"}}
OptSets == {t \cup o : t \in TypeFilters, o \in {{}, {"s"}}}
StartArgs == {<<"r">>}

ExplicitFilter(o) == o \cap {"l", "d", "f"} # {}

-----------------------------------------------------------------------------
(* Actions *)

(* main() up to the call of the walk: option parsing, the default filter,  *)
(* the start path, the first allocation of the list.  For part_001 also    *)
(* the head of dirwalk(), lines 153-216.  The flags of src/main.c are      *)
(* globals that parse_options() only ever sets (kept).                     *)
main ==
    /\ pc = "main"
    /\ LET kept == variant = "mc"
           l    == "l" \in opts \/ (kept /\ show_links)
           d    == "d" \in opts \/ (kept /\ show_dirs)
           f    == "f" \in opts \/ (kept /\ show_files)
           any  == l \/ d \/ f
           dir  == IF argv_dir = <<>> THEN <<".">> ELSE argv_dir
           orig == IF variant = "p1" THEN remove_trailing_slash(dir) ELSE dir
           a    == IF variant \in {"dw", "p3a"} /\ "s" \in opts
                   THEN DoAlloc(St) ELSE St
           b    == IF variant = "p1" THEN DoAlloc(DoAlloc(a)) ELSE a
           nostat == variant = "p1" /\ (orig = <<>> \/ Lstat(1) = "NS")
           g    == IF variant = "dw" /\ argv_dir = <<>> /\ opts = {}
                   THEN [pc |-> "done", status |-> "EXIT_SUCCESS"]
                   ELSE IF ~a.ok
                   THEN [pc |-> "done",
                         status |-> IF variant = "dw" THEN "EXIT_FAILURE"
                                    ELSE "SIGABRT"]
                   ELSE IF ~b.ok \/ nostat
                   THEN [pc |-> "done", status |-> "EXIT_FAILURE"]
                   ELSE [pc |-> "walk", status |-> "running"]
       IN  /\ show_links' = (IF variant = "p3a" THEN l ELSE l \/ ~any)
           /\ show_dirs' = (IF variant = "p3a" THEN d ELSE d \/ ~any)
           /\ show_files' = (IF variant = "p3a" THEN f ELSE f \/ ~any)
           /\ filter_active' = any
           /\ sort_output' = ("s" \in opts \/ (kept /\ sort_output))
           /\ start_dir' = orig
           /\ traverse_dir' = (IF variant = "p1" /\ ~nostat
                                  /\ Lstat(1) \in {"L", "LD"}
                                  /\ StatKind(1) = "D"
                               THEN remove_trailing_slash(TargetDir)
                               ELSE orig)
           /\ capacity' = (IF variant \in {"dw", "p3a"} /\ "s" \in opts
                           THEN IF a.ok \/ variant = "dw"
                                THEN InitialCapacity ELSE 0
                           ELSE capacity)
           /\ slots' = (IF variant \in {"dw", "p3a"} /\ "s" \in opts
                        THEN IF a.ok THEN InitialCapacity ELSE 0
                        ELSE slots)
           /\ okAllocs' = b.okA
           /\ afails' = b.af
           /\ Goto(g)
    /\ UNCHANGED <<Config, stack, list, idx, out, okWrites, wfails, log,
                   flushes>>

(* init_file_list() that leaves the count of the list as it was. *)
init_file_listKeepsCount(s) ==
    LET a == DoAlloc(s)
    IN  [a EXCEPT !.cap = InitialCapacity,
                  !.slots = IF a.ok THEN InitialCapacity ELSE 0]

(* init_file_list() of part_001 and part_003: a new array, count = 0 *)
init_file_list(s) ==
    LET a == DoAlloc(s)
    IN  [a EXCEPT !.cap = InitialCapacity,
                  !.slots = IF a.ok THEN InitialCapacity ELSE 0,
                  !.list = <<>>]

(* src/src/dirwalk.c:184 and src/unnamed/part_003:533, nftw() on the start *)
StartNftw(v, s) ==
    LET a == IF v = "p3b" /\ sort_output THEN init_file_list(s) ELSE s
    IN  IF ~a.ok THEN [a EXCEPT !.res = "exit"]
        ELSE IF Lstat(1) = "NS" THEN [a EXCEPT !.res = "fail"]
        ELSE NftwEntry(v, a, 1, Lstat(1), FtwDirbuf(traverse_dir))

(* src/unnamed/part_001 dirwalk(), lines 218-232 *)
StartP1(s) ==
    LET a == IF sort_output THEN init_file_list(s) ELSE s
        k == IF traverse_dir # start_dir THEN StatKind(1) ELSE Lstat(1)
    IN  IF ~a.ok THEN [a EXCEPT !.res = "exit"]
        ELSE IF k = "NS" THEN [a EXCEPT !.res = "fail"]
        ELSE NftwEntry("p1", a, 1, k, FtwDirbuf(traverse_dir))

(* src/unnamed/part_003 main(), lines 141-165 *)
StartP3a(s) ==
    LET t == P3aEntry(s, 1, start_dir)
    IN  IF LstatAgain(1) = "NS" THEN [t EXCEPT !.res = "fail"] ELSE t

(* src/main.c main() line 174 and dirwalk() lines 70-73 *)
StartMc(s) ==
    IF CanOpen(1)
    THEN [Unclassified(s, 1, start_dir) EXCEPT !.res = "push"]
    ELSE s

Start(v, s) ==
    CASE v = "mc"  -> StartMc(s)
      [] v = "p3a" -> StartP3a(s)
      [] v = "p1"  -> StartP1(s)
      [] OTHER     -> StartNftw(v, s)

(* A list entry that is a NULL pointer makes strcoll() and puts() undefined *)
(* behaviour: the process is killed, or the call goes on as if the pointer *)
(* were a string that sorts first.                                         *)
HasNull(s) == \E i \in DOMAIN s : s[i] = NullStr
NonNull(s) == SelectSeq(s, LAMBDA p : p # NullStr)
Nulls(s) == SelectSeq(s, LAMBDA p : p = NullStr)
Killed == [pc |-> "done", status |-> "SIGSEGV"]

(* The walk is called and handles the start path. *)
walk_start ==
    /\ pc = "walk"
    /\ \E t \in {Start(variant, St)} :
           /\ Apply(t)
           /\ stack' = (IF t.res = "push"
                        THEN <<Frame(IF variant \in NftwVariants
                                     THEN FtwDirbuf(traverse_dir)
                                     ELSE traverse_dir, 1)>>
                        ELSE <<>>)
           /\ IF t.res \in {"push", "cont"}
              THEN pc' = "walking" /\ status' = status
              ELSE Goto(AfterWalk(variant, t.res))
    /\ UNCHANGED <<Config, Flags, start_dir, traverse_dir, idx, flushes>>

(* One turn of the readdir() loop of the innermost open directory.  A      *)
(* store outside the array of the list is undefined behaviour: the process *)
(* is killed, or it goes on.                                               *)
walk_step ==
    /\ pc = "walking"
    /\ stack # <<>>
    /\ stack[Len(stack)].rest # <<>>
    /\ LET top  == stack[Len(stack)]
           c    == Head(top.rest)
           path == Join(variant, top.path, Str(Name(c)))
           read == [stack EXCEPT ![Len(stack)].rest = Tail(@)]
       IN  \E t \in {Entry(variant, St, c, path)} :
           /\ Apply(t)
           /\ stack' = (CASE t.res = "push" -> Append(read, Frame(path, c))
                          [] t.res \in {"stop", "fail"} -> <<>>
                          [] OTHER -> read)
           /\ \E crash \in BOOLEAN :
                 IF crash /\ t.ub THEN Goto(Killed)
                 ELSE IF t.res \in {"push", "cont"}
                 THEN pc' = pc /\ status' = status
                 ELSE Goto(AfterWalk(variant, t.res))
    /\ UNCHANGED <<Config, Flags, start_dir, traverse_dir, idx, flushes>>

(* readdir() returns NULL: closedir() and return to the caller. *)
walk_closedir ==
    /\ pc = "walking"
    /\ stack # <<>>
    /\ stack[Len(stack)].rest = <<>>
    /\ LET top == stack[Len(stack)]
       IN  \E t \in {IF FtwDepth /\ variant \in NftwVariants
                     THEN Classify(variant, St, top.node, "DP", top.path,
                                   FALSE)
                     ELSE St} :
           /\ Apply(t)
           /\ stack' = SubSeq(stack, 1, Len(stack) - 1)
    /\ UNCHANGED <<Config, Flags, start_dir, traverse_dir, pc, status, idx,
                   flushes>>

(* The walk returns to main(). *)
walk_return ==
    /\ pc = "walking"
    /\ stack = <<>>
    /\ Goto(AfterWalk(variant, "cont"))
    /\ UNCHANGED <<Config, Flags, start_dir, traverse_dir, stack, list,
                   capacity, slots, idx, out, okWrites, okAllocs, wfails,
                   afails, log, flushes>>

(* qsort() of the collected paths; src/main.c sorts only under -s. *)
flush ==
    /\ pc = "flush"
    /\ flushes' = flushes + 1
    /\ \E crash \in BOOLEAN :
          IF crash /\ sort_output /\ HasNull(list) /\ Len(list) >= 2
          THEN /\ list' = list
               /\ idx' = idx
               /\ Goto(Killed)
          ELSE /\ list' = (IF sort_output
                           THEN Nulls(list) \o qsort(NonNull(list))
                           ELSE list)
               /\ idx' = 0
               /\ pc' = "print"
               /\ status' = status
    /\ UNCHANGED <<Config, Flags, start_dir, traverse_dir, stack, capacity,
                   slots, out, okWrites, okAllocs, wfails, afails, log>>

(* One turn of the loop that writes the list; only src/src/dirwalk.c       *)
(* looks at the result of the write.                                       *)
print_path ==
    /\ pc = "print"
    /\ idx < Len(list)
    /\ \E crash \in BOOLEAN :
          LET w == DoWrite(St, list[idx + 1])
          IN  IF crash /\ list[idx + 1] = NullStr
              THEN /\ UNCHANGED <<out, okWrites, wfails, idx>>
                   /\ Goto(Killed)
              ELSE /\ out' = w.out
                   /\ okWrites' = w.okW
                   /\ wfails' = w.wf
                   /\ idx' = idx + 1
                   /\ IF variant = "dw" /\ ~w.ok
                      THEN Goto([pc |-> "done", status |-> "EXIT_FAILURE"])
                      ELSE pc' = pc /\ status' = status
    /\ UNCHANGED <<Config, Flags, start_dir, traverse_dir, stack, list,
                   capacity, slots, okAllocs, afails, log, flushes>>

(* main() returns after the list is written. *)
main_return ==
    /\ pc = "print"
    /\ idx = Len(list)
    /\ Goto([pc |-> "done", status |-> "EXIT_SUCCESS"])
    /\ UNCHANGED <<Config, Flags, start_dir, traverse_dir, stack, list,
                   capacity, slots, idx, out, okWrites, okAllocs, wfails,
                   afails, log, flushes>>

-----------------------------------------------------------------------------
(* Specifications *)

InitRun ==
    /\ pc = "main"
    /\ show_links = FALSE /\ show_dirs = FALSE /\ show_files = FALSE
    /\ sort_output = FALSE /\ filter_active = FALSE
    /\ start_dir = <<>> /\ traverse_dir = <<>>
    /\ stack = <<>> /\ list = <<>> /\ idx = 0 /\ out = <<>>
    /\ capacity = 0 /\ slots = 0
    /\ status = "running"
    /\ wfails = 0 /\ afails = 0
    /\ log = <<>> /\ flushes = 0

Init ==
    /\ variant \in Variants
    /\ kind \in Trees
    /\ opts \in OptSets
    /\ argv_dir \in StartArgs
    /\ okWrites = -1
    /\ okAllocs = -1
    /\ recovers = FALSE
    /\ run = 1
    /\ prev = [opts |-> {}, out |-> <<>>, status |-> "none", shared |-> FALSE]
    /\ InitRun

Next ==
    \/ main
    \/ walk_start
    \/ walk_step
    \/ walk_closedir
    \/ walk_return
    \/ flush
    \/ print_path
    \/ main_return

Spec == Init /\ [][Next]_vars

(* A second run of the program on the same tree, to compare two outputs:   *)
(* with the sort option toggled, or with the type filter left out.         *)
Related(o) ==
    {IF "s" \in o THEN o \ {"s"} ELSE o \cup {"s"}}
        \cup (IF ExplicitFilter(o) THEN {o \ {"l", "d", "f"}} ELSE {})

Rerun ==
    /\ pc = "done"
    /\ run = 1
    /\ run' = run + 1
    /\ opts' \in Related(opts)
    /\ prev' = [opts |-> opts, out |-> out, status |-> status,
                shared |-> FALSE]
    /\ pc' = "main"
    /\ show_links' = FALSE /\ show_dirs' = FALSE /\ show_files' = FALSE
    /\ sort_output' = FALSE /\ filter_active' = FALSE
    /\ start_dir' = <<>> /\ traverse_dir' = <<>>
    /\ stack' = <<>> /\ list' = <<>> /\ idx' = 0 /\ out' = <<>>
    /\ capacity' = 0 /\ slots' = 0
    /\ status' = "running"
    /\ wfails' = 0 /\ afails' = 0
    /\ log' = <<>> /\ flushes' = 0
    /\ UNCHANGED <<variant, kind, argv_dir, okWrites, okAllocs, recovers>>

SpecTwice == Init /\ [][Next \/ Rerun]_vars

(* The same walk once more with the same command line: in a new process,   *)
(* or, after a run that returned, in the same process (shared), where the  *)
(* file-scope state is what the first walk left: the flag globals of       *)
(* src/main.c, the static file_list of part_001 and part_003:419-544.      *)
Again ==
    /\ pc = "done"
    /\ run = 1
    /\ run' = run + 1
    /\ \E shared \in BOOLEAN :
          /\ shared => status = "EXIT_SUCCESS"
          /\ prev' = [opts |-> opts, out |-> out, status |-> status,
                      shared |-> shared]
          /\ IF shared /\ variant \in {"mc", "p1", "p3b"}
             THEN UNCHANGED Flags
             ELSE /\ show_links' = FALSE /\ show_dirs' = FALSE
                  /\ show_files' = FALSE /\ sort_output' = FALSE
                  /\ filter_active' = FALSE
          /\ IF shared /\ variant \in {"p1", "p3b"}
             THEN UNCHANGED <<list, capacity, slots>>
             ELSE list' = <<>> /\ capacity' = 0 /\ slots' = 0
    /\ pc' = "main"
    /\ start_dir' = <<>> /\ traverse_dir' = <<>>
    /\ stack' = <<>> /\ idx' = 0 /\ out' = <<>>
    /\ status' = "running"
    /\ wfails' = 0 /\ afails' = 0
    /\ log' = <<>> /\ flushes' = 0
    /\ UNCHANGED <<variant, kind, opts, argv_dir, okWrites, okAllocs,
                   recovers>>

SpecAgain == Init /\ [][Next \/ Again]_vars

(* Runs in which a write to stdout or an allocation may fail, on trees of  *)
(* readable directories and regular files.                                 *)
PlainTrees ==
    {k \in Trees : k[1] = "D" /\ \A n \in Nodes : k[n] \in {"D", "F", "none"}}

InitFault ==
    /\ variant \in Variants
    /\ kind \in PlainTrees
    /\ opts \in {{}, {"s"}}
    /\ argv_dir \in StartArgs
    /\ okWrites \in -1..MaxOkWrites
    /\ okAllocs \in -1..MaxOkAllocs
    /\ recovers \in BOOLEAN
    /\ run = 1
    /\ prev = [opts |-> {}, out |-> <<>>, status |-> "none", shared |-> FALSE]
    /\ InitRun

SpecFault == InitFault /\ [][Next]_vars

(* Runs on start paths spelled with and without a trailing separator,      *)
(* relative and absolute, and on a start path that is a link to the        *)
(* directory TargetDir.                                                    *)
PathArgs == {<<"r">>, <<"r", "/">>, <<"/">>}

PathTrees ==
    {k \in Trees : /\ k[1] \in {"D", "LD"}
                   /\ \A n \in Nodes \ {1} : k[n] \in {"D", "F", "L", "none"}}

InitPaths ==
    /\ variant \in Variants
    /\ kind \in PathTrees
    /\ opts \in {{}, {"s"}}
    /\ argv_dir \in PathArgs
    /\ kind[1] = "LD" => argv_dir = <<"r">>
    /\ okWrites = -1
    /\ okAllocs = -1
    /\ recovers = FALSE
    /\ run = 1
    /\ prev = [opts |-> {}, out |-> <<>>, status |-> "none", shared |-> FALSE]
    /\ InitRun

SpecPaths == InitPaths /\ [][Next]_vars

(* Runs of a command line that names no directory. *)
InitDefault ==
    /\ variant \in Variants
    /\ kind \in PlainTrees
    /\ opts \in OptSets
    /\ argv_dir = <<>>
    /\ okWrites = -1
    /\ okAllocs = -1
    /\ recovers = FALSE
    /\ run = 1
    /\ prev = [opts |-> {}, out |-> <<>>, status |-> "none", shared |-> FALSE]
    /\ InitRun

SpecDefault == InitDefault /\ [][Next]_vars

(* Runs on trees that another process changes while the walk runs: a       *)
(* directory is removed, a regular file is replaced by a directory.        *)
RaceTrees ==
    {k \in [Nodes -> {"D", "F", "DV", "FV", "none"}] :
        /\ k[1] \in {"D", "FV"}
        /\ \A n \in Nodes \ {1} : k[n] # "none" => k[Parent(n)] = "D"}

InitRace ==
    /\ variant \in Variants
    /\ kind \in RaceTrees
    /\ opts \in OptSets
    /\ argv_dir \in StartArgs
    /\ okWrites = -1
    /\ okAllocs = -1
    /\ recovers = FALSE
    /\ run = 1
    /\ prev = [opts |-> {}, out |-> <<>>, status |-> "none", shared |-> FALSE]
    /\ InitRun

SpecRace == InitRace /\ [][Next]_vars

-----------------------------------------------------------------------------
(* What the specification expects *)

(* matches(kind, config) of the specification, section 4.1 *)
SpecMatch(k, o) ==
    IF ~ExplicitFilter(o) THEN k # "NS"
    ELSE \/ k \in {"L", "LD"} /\ "l" \in o
         \/ k \in {"D", "DNR", "DV"} /\ "d" \in o
         \/ k = "F" /\ "f" \in o

(* The nodes a physical walk reaches: the start path and every entry all   *)
(* of whose ancestors are directories that can be read.                    *)
RECURSIVE Reach(_)
Reach(n) ==
    IF n = 1 THEN TRUE
    ELSE kind[n] # "none" /\ kind[Parent(n)] = "D" /\ Reach(Parent(n))

RECURSIVE PathOf(_)
PathOf(n) ==
    IF n = 1 THEN argv_dir ELSE PathOf(Parent(n)) \o Slash \o Str(Name(n))

Range(q) == {q[i] : i \in DOMAIN q}

Finished == pc = "done" /\ status = "EXIT_SUCCESS"

Classified == {i \in DOMAIN log : log[i].as # "unclassified"}

-----------------------------------------------------------------------------
(* C1: after a walk that ends without a fatal error, the set of emitted    *)
(* paths is exactly the set of the nodes the physical walk reaches, the    *)
(* start node included, whose own (lstat) kind satisfies matches().        *)
C1_EmittedExactlyMatching ==
    Finished =>
        Range(out) = {PathOf(n) : n \in {m \in Nodes :
                         Reach(m) /\ SpecMatch(kind[m], opts)}}

(* C2: under an explicit type filter an entry that was classified is       *)
(* emitted iff it is a link and links were asked for, or a directory       *)
(* (readable or not) and directories were asked for, or a regular file and *)
(* files were asked for; sockets, FIFOs and devices never are.             *)
C2_ExplicitFilterMatch ==
    ExplicitFilter(opts) =>
        \A i \in Classified :
            log[i].emitted <=> SpecMatch(kind[log[i].node], opts)

(* C3: without an explicit type filter every entry whose metadata was      *)
(* obtained is emitted, whatever its kind.                                 *)
C3_DefaultMatchesAll ==
    ~ExplicitFilter(opts) =>
        \A i \in Classified :
            kind[log[i].node] # "NS" => log[i].emitted

(* C4 as claimed: the default configuration's output is a strict superset  *)
(* of the output of a configuration with a single explicit type filter.    *)
SecondOfDefault ==
    /\ run = 2 /\ pc = "done"
    /\ ExplicitFilter(prev.opts) /\ ~ExplicitFilter(opts)
    /\ status = "EXIT_SUCCESS" /\ prev.status = "EXIT_SUCCESS"

C4_StrictSuperset ==
    SecondOfDefault /\ Cardinality(prev.opts \cap {"l", "d", "f"}) = 1 =>
        /\ Range(prev.out) \subseteq Range(out)
        /\ Range(prev.out) # Range(out)

(* C4 as amended: the default configuration's output is a superset, not    *)
(* always a strict one, of the output under an explicit type filter.       *)
C4_Superset ==
    SecondOfDefault => Range(prev.out) \subseteq Range(out)

C4_Witness ==
    /\ SecondOfDefault
    /\ Cardinality(prev.opts \cap {"l", "d", "f"}) = 1
    /\ prev.out # <<>>
    /\ Range(prev.out) # Range(out)

C6_PhysicalWalk ==
    \A i \in DOMAIN log :
        /\ log[i].opened => kind[log[i].node] = "D"
        /\ kind[log[i].node] \in {"L", "LD"} =>
              log[i].as \in {"L", "LD"} /\ ~log[i].opened

(* C7: the walk visits at most one entry per node that is reachable        *)
(* without following a symbolic link, also when links form a cycle.        *)
C7_VisitsBounded ==
    /\ \A i \in DOMAIN log : Reach(log[i].node)
    /\ \A i, j \in DOMAIN log : log[i].node = log[j].node => i = j

(* C8: the start path is classified from its own metadata and emitted when *)
(* it matches, exactly as an entry below it is.                            *)
C8_StartClassified ==
    (pc \in {"walking", "flush", "print"} \/ Finished) /\ kind[1] # "NS" =>
        /\ log # <<>>
        /\ log[1].node = 1
        /\ log[1].as = Lstat(1)
        /\ log[1].emitted = Match(variant, Lstat(1))

(* C9: for the same tree and filter, the output with the sort option is a  *)
(* permutation of the output without it (the same multiset of paths) and   *)
(* is non-decreasing under the comparison used for sorting.                *)
Count(q, x) == Cardinality({i \in DOMAIN q : q[i] = x})

SameMultiset(a, b) ==
    /\ Len(a) = Len(b)
    /\ \A x \in Range(a) \cup Range(b) : Count(a, x) = Count(b, x)

NonDecreasing(q) ==
    \A i \in 1..(Len(q) - 1) : compare_paths(q[i], q[i + 1]) <= 0

SortToggled ==
    /\ run = 2 /\ pc = "done"
    /\ opts \ {"s"} = prev.opts \ {"s"}
    /\ ("s" \in opts) # ("s" \in prev.opts)
    /\ status = "EXIT_SUCCESS" /\ prev.status = "EXIT_SUCCESS"

SortedOut == IF "s" \in opts THEN out ELSE prev.out
PlainOut == IF "s" \in opts THEN prev.out ELSE out

C9_SortedPermutation ==
    SortToggled => SameMultiset(SortedOut, PlainOut) /\ NonDecreasing(SortedOut)

C9_Witness ==
    SortToggled /\ Len(PlainOut) >= 2 /\ ~NonDecreasing(PlainOut)

(* C10: in collecting mode no path is written while the walk is running;   *)
(* the sort-and-flush step runs once, and only after the walk has ended.   *)
C10_FlushOnceAfterWalk ==
    Collecting(variant) /\ pc # "main" =>
        /\ flushes <= 1
        /\ pc \in {"walk", "walking"} => out = <<>> /\ flushes = 0
        /\ flushes = 1 => stack = <<>> /\ pc \in {"print", "done"}
        /\ out # <<>> => flushes = 1

C10_Witness ==
    /\ Collecting(variant) /\ sort_output
    /\ pc = "done" /\ flushes = 1
    /\ Len(out) >= 2 /\ Len(log) >= 2

-----------------------------------------------------------------------------
(* Claims about errors *)

(* The directories of the tree that cannot be opened for enumeration. *)
Unopenable == {n \in Nodes : Reach(n) /\ kind[n] \in {"DNR", "DV"}}

(* C11: a directory that exists but cannot be opened is still emitted      *)
(* whenever directories match the filter (or no filter is active), and the *)
(* walk handles no entry beneath it.                                       *)
C11_UnopenableDirEmitted ==
    pc = "done" =>
        \A n \in Unopenable :
            /\ SpecMatch(kind[n], opts) => PathOf(n) \in Range(out)
            /\ \A i \in DOMAIN log : Parent(log[i].node) # n

(* The entries below the start path at which a non-fatal error occurs: the *)
(* metadata cannot be read, or the directory cannot be opened.             *)
ErrorEntries ==
    {n \in Nodes \ {1} : Reach(n) /\ kind[n] \in {"NS", "DNR", "DV"}}

(* The entries below the start path that lie outside the subtree of every  *)
(* entry with an error.                                                    *)
OutsideErrors ==
    {n \in Nodes \ {1} : Reach(n) /\ kind[n] \in {"D", "F", "O", "L"}}

(* C12: a non-fatal error at one entry is isolated to that entry's         *)
(* subtree: every entry outside it is visited, and emitted iff it matches, *)
(* as in a walk without the error.                                         *)
C12_ErrorIsolated ==
    pc = "done" /\ ErrorEntries # {} =>
        \A n \in OutsideErrors :
            \E i \in DOMAIN log :
                /\ log[i].node = n
                /\ log[i].emitted = Match(variant, kind[n])
                /\ log[i].emitted => log[i].path \in Range(out)

(* C13: a walk in which only non-fatal errors occur, all of them below the *)
(* start path, ends with a success exit status.                            *)
C13_NonFatalSuccess ==
    pc = "done" /\ ErrorEntries # {} /\ wfails = 0 /\ afails = 0 =>
        status = "EXIT_SUCCESS"

(* C14: when the metadata of the start path cannot be obtained, no path is *)
(* written to the output and the program ends with a failure exit status.  *)
C14_StartPathError ==
    Lstat(1) = "NS" =>
        /\ out = <<>>
        /\ pc = "done" => status = "EXIT_FAILURE"

(* C15: in streaming mode, once the write of a path has failed, the walk   *)
(* handles no further entry and writes no further path, and what was       *)
(* written before stays written.                                           *)
C15_StreamingStops ==
    [][~Collecting(variant) /\ wfails > 0 => log' = log /\ out' = out]_vars

(* C16: every output error, in the walk of the streaming sink or in the    *)
(* flush, makes the program end with a failure exit status.                *)
C16_OutputErrorFails ==
    pc = "done" /\ wfails > 0 => status # "EXIT_SUCCESS"

(* C17: during the flush of the list the first write failure stops the     *)
(* flush: no entry after the failing one is written.                       *)
C17_FlushStops ==
    [][pc = "print" /\ wfails > 0 => out' = out]_vars

(* C18: in collecting mode an allocation failure ends the program with a   *)
(* failure status, and none of the collected paths reaches the output.     *)
C18_AllocFailureFatal ==
    Collecting(variant) /\ afails > 0 =>
        /\ out = <<>>
        /\ pc = "done" => status # "EXIT_SUCCESS"

-----------------------------------------------------------------------------
(* Claims about paths *)

(* dir and name with exactly one separator between them. *)
OneSep(dir, name) ==
    (IF dir # <<>> /\ dir[Len(dir)] = "/" THEN dir ELSE dir \o Slash) \o name

(* C19: the path of every entry read from a directory is the directory's   *)
(* path joined to the entry's name with exactly one separator, also when   *)
(* the directory's path already ends in a separator.                       *)
C19_OneSeparator ==
    \A i \in DOMAIN log :
        log[i].node > 1 =>
            \E j \in DOMAIN log :
                /\ log[j].node = Parent(log[i].node)
                /\ log[i].path = OneSep(log[j].path, Str(Name(log[i].node)))

(* The start path as the caller spelled it, trailing separators dropped    *)
(* (the root directory keeps its name).                                    *)
StartSpelling == FtwDirbuf(argv_dir)

IsAbsolute(path) == path # <<>> /\ path[1] = "/"

(* C20: every emitted path is the start path as spelled by the caller,     *)
(* trailing separators dropped, or that spelling followed by one separator *)
(* and a relative path; none is absolute unless the start path was, also   *)
(* when the start path is a link to an absolute directory path.            *)
C20_RootedAtStart ==
    \A i \in DOMAIN out :
        LET path   == out[i]
            prefix == OneSep(StartSpelling, <<>>)
        IN  /\ \/ path = StartSpelling
               \/ /\ IsPrefix(prefix, path)
                  /\ Len(path) > Len(prefix)
                  /\ path[Len(prefix) + 1] # "/"
            /\ IsAbsolute(path) => IsAbsolute(argv_dir)

-----------------------------------------------------------------------------
(* The directory handles the walk holds open: one per frame of the stack   *)
(* (the DIR * local to each level of the recursion).                       *)
OpenHandles == Len(stack)

(* C21: every directory handle the walk opened is closed when its level of *)
(* the recursion is left, on every exit path: no handle is open once the   *)
(* walk has ended, whether it completed, was cut short or ended the run.   *)
C21_HandlesClosed ==
    pc \in {"flush", "print", "done"} => OpenHandles = 0

(* C22: the same walk run twice on the unchanged tree with the same        *)
(* command line writes the same output both times, also when the second    *)
(* walk runs in the process of the first and finds its file-scope state.   *)
C22_SameOutputAgain ==
    run = 2 /\ pc = "done" /\ prev.opts = opts => out = prev.out

C22_Witness ==
    /\ run = 2 /\ pc = "done" /\ prev.shared
    /\ variant = "p1" /\ sort_output
    /\ Len(out) >= 2 /\ out = prev.out

(* C23: a start path that is an empty directory yields its own path alone  *)
(* when it matches the filter, and nothing otherwise; a start path that is *)
(* a regular file yields exactly that path when it matches, and no         *)
(* directory is enumerated for it.                                         *)
C23_LeafStart ==
    pc = "done" =>
        /\ kind[1] = "D" /\ Children(1) = <<>> =>
              out = (IF SpecMatch("D", opts) THEN <<argv_dir>> ELSE <<>>)
        /\ kind[1] = "F" =>
              /\ out = (IF SpecMatch("F", opts) THEN <<argv_dir>> ELSE <<>>)
              /\ \A i \in DOMAIN log : ~log[i].opened

(* C24: when the command line names no directory the walk starts at ".",   *)
(* whatever the options are, also when there is no argument at all: the    *)
(* run handles the start path "." before it ends.                          *)
C24_DefaultStartDot ==
    argv_dir = <<>> /\ pc = "done" =>
        /\ start_dir = <<".">>
        /\ \E i \in DOMAIN log : log[i].node = 1 /\ log[i].path = <<".">>

(* The paths of the entries that were emitted, in the order in which the   *)
(* walk came to them.                                                      *)
DiscoveryOrder ==
    LET e == SelectSeq(log, LAMBDA r : r.emitted)
    IN  [i \in 1..Len(e) |-> e[i].path]

(* C25: the walker never reorders during the descent.  Without collecting, *)
(* the output is the emitted paths in discovery order; with collecting,    *)
(* the list holds them in discovery order until the sort step begins.      *)
C25_DiscoveryOrder ==
    pc # "main" =>
        /\ ~Collecting(variant) => out = DiscoveryOrder
        /\ Collecting(variant) /\ flushes = 0 => list = DiscoveryOrder

C25_Witness ==
    /\ pc = "walking" /\ sort_output /\ flushes = 0
    /\ Len(list) >= 3 /\ ~NonDecreasing(list)
    /\ list = DiscoveryOrder

(* C26: an entry whose own metadata cannot be read is neither emitted nor  *)
(* descended into, a diagnostic is written for it, and the walk goes on:   *)
(* a run that ends normally has handled the entries listed after it.       *)
C26_NoMetadataSkipped ==
    \A i \in DOMAIN log :
        log[i].as = "NS" =>
            /\ ~log[i].emitted
            /\ ~log[i].opened
            /\ log[i].diag
            /\ Finished =>
                  \A n \in Nodes :
                      /\ n > log[i].node
                      /\ Parent(n) = Parent(log[i].node)
                      /\ kind[n] # "none"
                      => \E j \in DOMAIN log : log[j].node = n

(* C27: while the program runs, after any appends to the collecting list,  *)
(* a failed one included: the count is at most the slots of the array, the *)
(* capacity field equals the slots of the array, and every slot below the  *)
(* count holds a copy, never NULL, of the path appended at that position.  *)
C27_ListConsistent ==
    status = "running" =>
        /\ Len(list) <= slots
        /\ capacity = slots
        /\ \A i \in DOMAIN list : list[i] # NullStr
        /\ pc = "walking" /\ Collecting(variant) => list = DiscoveryOrder

(* C28: also when another process changes the tree during the walk, the    *)
(* kind that decides the descent into an entry is the kind it was          *)
(* classified and emitted by: no directory is enumerated for an entry      *)
(* classified as something else, and no descent is decided by a second     *)
(* metadata lookup that differs from the first.                            *)
C28_OneKindDecides ==
    \A i \in Classified :
        /\ log[i].dk = log[i].as
        /\ log[i].opened => log[i].as \in {"D", "DNR", "DV"}

(* C29: one walk over an unchanged tree emits no path more than once,      *)
(* neither into the list nor onto standard output.                         *)
C29_NoPathTwice ==
    /\ \A i, j \in DOMAIN out : out[i] = out[j] => i = j
    /\ \A i, j \in DOMAIN list : list[i] = list[j] => i = j

C29_Witness ==
    /\ Finished
    /\ Len(out) = NumNodes
    /\ \E n \in Nodes \ {1} : kind[n] = "L"
    /\ \A i, j \in DOMAIN out : out[i] = out[j] => i = j

(* C30: dropping the trailing separators of a start path that is not empty *)
(* never leaves the empty string: "/" still names the root directory, and  *)
(* the run does not fail at the first metadata lookup of the start path.   *)
C30_RootKeepsItsName ==
    argv_dir # <<>> /\ pc # "main" =>
        /\ start_dir # <<>>
        /\ traverse_dir # <<>>
        /\ pc = "done" => status = "EXIT_SUCCESS"

=============================================================================
